---- MODULE Spec2Model ----
(***************************************************************************)
(* A model of restor's BlackBox: a registry from type identity to a unit   *)
(* that wraps one StorageUnit (Nope / One / Many) in a synchronization     *)
(* discipline (RefCell, Mutex or RwLock).                                  *)
(*                                                                         *)
(* StorageUnit and BlackBox are translated from src/black_box/unit.rs and  *)
(* src/black_box/mod.rs.  The three concrete units (RefCellUnit, MutexUnit,*)
(* RwLockUnit) are declared by the Unit trait and used by allocate_for,    *)
(* but their bodies are not part of the sources at hand: the Unit_*        *)
(* operators below follow the written specification (try-acquire, then the *)
(* StorageUnit operation) and the guard types fixed in mod.rs.             *)
(***************************************************************************)
EXTENDS Integers, Sequences, FiniteSets, Bags, TLC

VARIABLES disc, data, guards, last

vars == <<disc, data, guards, last>>

(***************************************************************************)
(* Bounds of the model.                                                    *)
(***************************************************************************)
\* the values stored over all units together never exceed MaxLen
MaxLen == 2
\* at most MaxGuards guards are alive at once
MaxGuards == 2

\* the stored values are opaque to the code: two distinct ones show order
Vals == {0, 1}
\* type identities (TypeId::of::<T>())
Types == {"usize", "isize"}
Disciplines == {"RefCell", "Mutex", "RwLock"}

\* every sequence over S of length at most n
RECURSIVE SeqsUpTo(_, _)
SeqsUpTo(S, n) ==
    IF n = 0 THEN {<<>>}
    ELSE LET shorter == SeqsUpTo(S, n - 1)
         IN shorter \cup {Append(s, x) : s \in {q \in shorter : Len(q) = n - 1}, x \in S}

(***************************************************************************)
(* ErrorDesc and UnitError.  Ok stands for the success side of a           *)
(* DynamicResult and for the None of insert's Option<(T, ErrorDesc)>.      *)
(***************************************************************************)
Ok == "Ok"
BorrowedIncompatibly == "BorrowedIncompatibly"
NoAllocatedUnit == "NoAllocatedUnit"
NoMatchingType == "NoMatchingType"
IsNotOne == "IsNotOne"
IsNotMany == "IsNotMany"
OutOfBounds == "OutOfBounds"

(***************************************************************************)
(* StorageUnit<T>: Nope, One(T), Many(Vec<T>).  The payload of every       *)
(* variant is kept in the field vec (empty for Nope, one element for One). *)
(***************************************************************************)
Nope == [tag |-> "Nope", vec |-> <<>>]
One(x) == [tag |-> "One", vec |-> <<x>>]
Many(v) == [tag |-> "Many", vec |-> v]

StorageUnit_new == Nope

\* Vec::insert(0, x)
VecInsertFront(v, x) == <<x>> \o v

\* StorageUnit_insert with the promotion of One pushing the previous value
\* behind the new one
StorageUnit_insert_as(self, new) ==
    CASE self.tag = "Nope" -> One(new)
      [] self.tag = "One"  -> Many(Append(<<new>>, self.vec[1]))
      [] self.tag = "Many" -> Many(Append(self.vec, new))

\* StorageUnit_insert starting a vector where it should store One
StorageUnit_insert_as2(self, new) ==
    CASE self.tag = "Nope" -> Many(<<new>>)
      [] self.tag = "One"  -> Many(VecInsertFront(<<new>>, self.vec[1]))
      [] self.tag = "Many" -> Many(Append(self.vec, new))

StorageUnit_insert(self, new) ==
    CASE self.tag = "Nope" -> One(new)
      [] self.tag = "One"  ->
            \* rep = Many(vec![new]); swap(self, rep); v.insert(0, prev)
            LET rep == Many(<<new>>)
                prev == self.vec[1]
            IN Many(VecInsertFront(rep.vec, prev))
      [] self.tag = "Many" -> Many(Append(self.vec, new))

\* StorageUnit_insert_many putting the previous value of One behind the new ones
StorageUnit_insert_many_as(self, new) ==
    CASE self.tag = "Nope" -> Many(new)
      [] self.tag = "One"  -> Many(new \o <<self.vec[1]>>)
      [] self.tag = "Many" -> Many(self.vec \o new)

StorageUnit_insert_many(self, new) ==
    CASE self.tag = "Nope" -> Many(new)
      [] self.tag = "One"  ->
            LET rep == Many(new)
                val == self.vec[1]
            IN Many(VecInsertFront(rep.vec, val))
      [] self.tag = "Many" -> Many(self.vec \o new)

\* StorageUnit_one accepting a vector of one value as One
StorageUnit_one_as(self) ==
    IF self.tag = "One" \/ (self.tag = "Many" /\ Len(self.vec) = 1)
    THEN [err |-> Ok, val |-> <<self.vec[1]>>]
    ELSE [err |-> IsNotOne, val |-> <<>>]

StorageUnit_one(self) ==
    IF self.tag = "One" THEN [err |-> Ok, val |-> <<self.vec[1]>>]
    ELSE [err |-> IsNotOne, val |-> <<>>]

\* StorageUnit_many answering One with a vector of its value
StorageUnit_many_as(self) ==
    IF self.tag \in {"Many", "One"} THEN [err |-> Ok, val |-> self.vec]
    ELSE [err |-> IsNotMany, val |-> <<>>]

StorageUnit_many(self) ==
    IF self.tag = "Many" THEN [err |-> Ok, val |-> self.vec]
    ELSE [err |-> IsNotMany, val |-> <<>>]

\* StorageUnit_extract_one returning the value without taking it out
StorageUnit_extract_one_as(self) ==
    CASE self.tag = "Nope" -> [err |-> IsNotOne, val |-> <<>>, self |-> self]
      [] self.tag = "Many" -> [err |-> IsNotOne, val |-> <<>>, self |-> self]
      [] self.tag = "One"  -> [err |-> Ok, val |-> self.vec, self |-> self]

\* StorageUnit_extract_one swapping the unit out before it looks at the state
StorageUnit_extract_one_as2(self) ==
    CASE self.tag = "Nope" -> [err |-> IsNotOne, val |-> <<>>, self |-> Nope]
      [] self.tag = "Many" -> [err |-> IsNotOne, val |-> <<>>, self |-> Nope]
      [] self.tag = "One"  -> [err |-> Ok, val |-> self.vec, self |-> Nope]

StorageUnit_extract_one(self) ==
    CASE self.tag = "Nope" -> [err |-> IsNotOne, val |-> <<>>, self |-> self]
      [] self.tag = "Many" -> [err |-> IsNotOne, val |-> <<>>, self |-> self]
      [] self.tag = "One"  ->
            \* repl = Nope; swap(repl, self); Ok(data)
            [err |-> Ok, val |-> self.vec, self |-> Nope]

StorageUnit_extract_many(self) ==
    CASE self.tag = "Nope" -> [err |-> IsNotMany, val |-> <<>>, self |-> self]
      [] self.tag = "One"  -> [err |-> IsNotMany, val |-> <<>>, self |-> self]
      [] self.tag = "Many" -> [err |-> Ok, val |-> self.vec, self |-> Nope]

StorageUnit_extract_many_boxed(self) ==
    CASE self.tag = "Nope" -> [err |-> IsNotMany, val |-> <<>>, self |-> self]
      [] self.tag = "One"  -> [err |-> IsNotMany, val |-> <<>>, self |-> self]
      [] self.tag = "Many" -> [err |-> Ok, val |-> self.vec, self |-> Nope]

(***************************************************************************)
(* The guard types of the three unit traits (the Borrowed and MutBorrowed  *)
(* associated types fixed by the type aliases of mod.rs).                  *)
(***************************************************************************)
\* RefCellUnitTrait with Ref as its MutBorrowed guard
RefCellUnitTrait_as == [Borrowed |-> "Ref", MutBorrowed |-> "Ref"]

RefCellUnitTrait == [Borrowed |-> "Ref", MutBorrowed |-> "RefMut"]

\* MutexUnitTrait with a shared guard as its Borrowed guard
MutexUnitTrait_as == [Borrowed |-> "MappedRwLockReadGuard", MutBorrowed |-> "MappedMutexGuard"]

MutexUnitTrait == [Borrowed |-> "MappedMutexGuard", MutBorrowed |-> "MappedMutexGuard"]

\* RwLockUnitTrait with the read guard as its MutBorrowed guard
RwLockUnitTrait_as ==
    [Borrowed |-> "MappedRwLockReadGuard", MutBorrowed |-> "MappedRwLockReadGuard"]

\* RwLockUnitTrait with the write guard as its Borrowed guard
RwLockUnitTrait_as2 ==
    [Borrowed |-> "MappedRwLockWriteGuard", MutBorrowed |-> "MappedRwLockWriteGuard"]

RwLockUnitTrait ==
    [Borrowed |-> "MappedRwLockReadGuard", MutBorrowed |-> "MappedRwLockWriteGuard"]

\* the trait object type U of BlackBox<U>
U ==
    CASE disc = "RefCell" -> RefCellUnitTrait
      [] disc = "Mutex"   -> MutexUnitTrait
      [] disc = "RwLock"  -> RwLockUnitTrait

\* a guard of this type is the only guard of its primitive while it lives
IsExclusive(gt) == gt \in {"RefMut", "MappedMutexGuard", "MappedRwLockWriteGuard"}

\* a guard of this type implements DerefMut
IsDerefMut(gt) == gt \in {"RefMut", "MappedMutexGuard", "MappedRwLockWriteGuard"}

(***************************************************************************)
(* A unit: one StorageUnit behind one primitive.  lock is the primitive's  *)
(* state: 0 free, n > 0 shared by n guards, -1 held exclusively.           *)
(***************************************************************************)
NewUnit == [inner |-> StorageUnit_new, lock |-> 0]

\* try_borrow / try_read / try_lock / try_borrow_mut / try_write
try_acquire(u, gt) == IF IsExclusive(gt) THEN u.lock = 0 ELSE u.lock >= 0

acquire(u, gt) ==
    IF IsExclusive(gt) THEN [u EXCEPT !.lock = -1] ELSE [u EXCEPT !.lock = @ + 1]

\* release with the drop of a MappedMutexGuard leaving the mutex locked
release_as(u, gt) ==
    IF gt = "MappedMutexGuard" THEN u
    ELSE IF IsExclusive(gt) THEN [u EXCEPT !.lock = 0] ELSE [u EXCEPT !.lock = @ - 1]

\* Drop of a guard
release(u, gt) ==
    IF IsExclusive(gt) THEN [u EXCEPT !.lock = 0] ELSE [u EXCEPT !.lock = @ - 1]

\* exclusive access for the length of one call (insert_any, extract*)
try_exclusive(u) == u.lock = 0

\* Unit::one / Unit::one_mut: the guard is kept only when the state is One
Unit_borrow_one(u, gt) ==
    IF ~try_acquire(u, gt) THEN [err |-> BorrowedIncompatibly, val |-> <<>>, unit |-> u]
    ELSE LET r == StorageUnit_one(u.inner)
         IN IF r.err = Ok THEN [err |-> Ok, val |-> r.val, unit |-> acquire(u, gt)]
            ELSE [err |-> r.err, val |-> <<>>, unit |-> u]

Unit_one(u) == Unit_borrow_one(u, U.Borrowed)

Unit_one_mut(u) == Unit_borrow_one(u, U.MutBorrowed)

\* Unit::ind / Unit::ind_mut: the guard is narrowed to element ind of Many
Unit_borrow_ind(u, ind, gt) ==
    IF ~try_acquire(u, gt) THEN [err |-> BorrowedIncompatibly, val |-> <<>>, unit |-> u]
    ELSE LET r == StorageUnit_many(u.inner)
         IN IF r.err # Ok THEN [err |-> r.err, val |-> <<>>, unit |-> u]
            ELSE IF ind >= Len(r.val) THEN [err |-> OutOfBounds, val |-> <<>>, unit |-> u]
            ELSE [err |-> Ok, val |-> <<r.val[ind + 1]>>, unit |-> acquire(u, gt)]

Unit_ind(u, ind) == Unit_borrow_ind(u, ind, U.Borrowed)

Unit_ind_mut(u, ind) == Unit_borrow_ind(u, ind, U.MutBorrowed)

Unit_extract(u) ==
    IF ~try_exclusive(u) THEN [err |-> BorrowedIncompatibly, val |-> <<>>, unit |-> u]
    ELSE LET r == StorageUnit_extract_one(u.inner)
         IN [err |-> r.err, val |-> r.val, unit |-> [u EXCEPT !.inner = r.self]]

Unit_extract_many(u) ==
    IF ~try_exclusive(u) THEN [err |-> BorrowedIncompatibly, val |-> <<>>, unit |-> u]
    ELSE LET r == StorageUnit_extract_many_boxed(u.inner)
         IN [err |-> r.err, val |-> r.val, unit |-> [u EXCEPT !.inner = r.self]]

\* new is the Box<dyn Any>: [is_vec |-> FALSE, vec |-> <<x>>] for a T,
\* [is_vec |-> TRUE, vec |-> xs] for a Vec<T>.  Some((new, e)) hands new back.
Unit_insert_any(u, new) ==
    IF ~try_exclusive(u) THEN [err |-> BorrowedIncompatibly, val |-> new.vec, unit |-> u]
    ELSE IF new.is_vec
         THEN [err |-> Ok, val |-> <<>>,
               unit |-> [u EXCEPT !.inner = StorageUnit_insert_many(@, new.vec)]]
         ELSE [err |-> Ok, val |-> <<>>,
               unit |-> [u EXCEPT !.inner = StorageUnit_insert(@, new.vec[1])]]

(***************************************************************************)
(* BlackBox<U>: data maps the TypeId of every allocated type to its unit   *)
(* (DOMAIN data is the key set of the HashMap).  Every operation returns   *)
(* [err, ret, data, guards]: the result handed to the caller, the map      *)
(* after the call and the guards alive after it.  ret is a sequence: the   *)
(* value read or moved out, or the value handed back by a failed insert.   *)
(***************************************************************************)
\* a guard alive in a caller's hands: the call that returned it, its type and
\* the index it was narrowed to (0 for get and get_mut)
Guard(T, gt, op, ind) == [ty |-> T, gt |-> gt, op |-> op, ind |-> ind]

Result(e, ret, d, g) == [err |-> e, ret |-> ret, data |-> d, guards |-> g]

Fail(e) == Result(e, <<>>, data, guards)

\* unit_get reporting a missing unit with the wrong variant of ErrorDesc
unit_get_as(T) ==
    IF T \in DOMAIN data THEN [err |-> Ok, unit |-> data[T]]
    ELSE [err |-> NoMatchingType, unit |-> NewUnit]

unit_get(T) ==
    IF T \in DOMAIN data THEN [err |-> Ok, unit |-> data[T]]
    ELSE [err |-> NoAllocatedUnit, unit |-> NewUnit]

BlackBox_new == [T \in {} |-> NewUnit]

\* allocate_for of the RwLock, Mutex and RefCell registries: the same body
\* around RwLockUnit::new, MutexUnit::new and RefCellUnit::new
\* allocate_for without the contains_key test
allocate_for_as(T) ==
    IF T \notin DOMAIN data THEN data @@ (T :> NewUnit)
    ELSE [data EXCEPT ![T] = NewUnit]

allocate_for(T) ==
    IF T \notin DOMAIN data THEN data @@ (T :> NewUnit) ELSE data

\* insert taking the Some((x, e)) of insert_any for success
BlackBox_insert_as(T, x) ==
    IF T \in DOMAIN data
    THEN LET r == Unit_insert_any(data[T], [is_vec |-> FALSE, vec |-> <<x>>])
         IN IF r.err # Ok THEN Result(Ok, <<>>, [data EXCEPT ![T] = r.unit], guards)
            ELSE Result(Ok, <<>>, [data EXCEPT ![T] = r.unit], guards)
    ELSE Result(NoAllocatedUnit, <<x>>, data, guards)

BlackBox_insert(T, x) ==
    IF T \in DOMAIN data
    THEN LET r == Unit_insert_any(data[T], [is_vec |-> FALSE, vec |-> <<x>>])
         IN IF r.err # Ok THEN Result(r.err, r.val, [data EXCEPT ![T] = r.unit], guards)
            ELSE Result(Ok, <<>>, [data EXCEPT ![T] = r.unit], guards)
    ELSE Result(NoAllocatedUnit, <<x>>, data, guards)

BlackBox_insert_many(T, xs) ==
    IF T \in DOMAIN data
    THEN LET r == Unit_insert_any(data[T], [is_vec |-> TRUE, vec |-> xs])
         IN IF r.err # Ok THEN Result(r.err, r.val, [data EXCEPT ![T] = r.unit], guards)
            ELSE Result(Ok, <<>>, [data EXCEPT ![T] = r.unit], guards)
    ELSE Result(Ok, <<>>, data, guards)

\* the tail shared by get, get_mut, ind and ind_mut: `?` on the unit's
\* result, then map() of the guard to the concrete type.  The unit is
\* reached through &self, so what the call did to it stays when `?` returns.
Borrow(T, r, gt, op, ind) ==
    IF r.err # Ok THEN Result(r.err, <<>>, [data EXCEPT ![T] = r.unit], guards)
    ELSE Result(Ok, r.val, [data EXCEPT ![T] = r.unit],
                guards (+) SetToBag({Guard(T, gt, op, ind)}))

\* get_mut calling one() where it should call one_mut()
BlackBox_get_mut_as(T) ==
    LET ug == unit_get(T)
    IN IF ug.err # Ok THEN Fail(ug.err)
       ELSE Borrow(T, Unit_one(ug.unit), U.Borrowed, "get_mut", 0)

BlackBox_get_mut(T) ==
    LET ug == unit_get(T)
    IN IF ug.err # Ok THEN Fail(ug.err)
       ELSE Borrow(T, Unit_one_mut(ug.unit), U.MutBorrowed, "get_mut", 0)

BlackBox_ind_mut(T, ind) ==
    LET ug == unit_get(T)
    IN IF ug.err # Ok THEN Fail(ug.err)
       ELSE Borrow(T, Unit_ind_mut(ug.unit, ind), U.MutBorrowed, "ind_mut", ind)

BlackBox_extract(T) ==
    LET ug == unit_get(T)
    IN IF ug.err # Ok THEN Fail(ug.err)
       ELSE LET r == Unit_extract(ug.unit)
            IN IF r.err # Ok THEN Result(r.err, <<>>, [data EXCEPT ![T] = r.unit], guards)
               ELSE Result(Ok, r.val, [data EXCEPT ![T] = r.unit], guards)

BlackBox_extract_many(T) ==
    LET ug == unit_get(T)
    IN IF ug.err # Ok THEN Fail(ug.err)
       ELSE LET r == Unit_extract_many(ug.unit)
            IN IF r.err # Ok THEN Result(r.err, <<>>, [data EXCEPT ![T] = r.unit], guards)
               ELSE Result(Ok, r.val, [data EXCEPT ![T] = r.unit], guards)

BlackBox_get(T) ==
    LET ug == unit_get(T)
    IN IF ug.err # Ok THEN Fail(ug.err)
       ELSE Borrow(T, Unit_one(ug.unit), U.Borrowed, "get", 0)

BlackBox_ind(T, ind) ==
    LET ug == unit_get(T)
    IN IF ug.err # Ok THEN Fail(ug.err)
       ELSE Borrow(T, Unit_ind(ug.unit, ind), U.Borrowed, "ind", ind)

(***************************************************************************)
(* The state machine.  last is the most recent call and what it returned.  *)
(***************************************************************************)
RECURSIVE SumLen(_, _)
SumLen(d, S) ==
    IF S = {} THEN 0
    ELSE LET T == CHOOSE x \in S : TRUE
         IN Len(d[T].inner.vec) + SumLen(d, S \ {T})

TotalLen(d) == SumLen(d, DOMAIN d)

\* the bounds: a call that brings n values is made while there is room for
\* them, and a borrow is requested while fewer than MaxGuards guards are alive
Room(n) == TotalLen(data) + n <= MaxLen

Call(op, T, arg, r) ==
    /\ BagCardinality(r.guards) <= MaxGuards
    /\ data' = r.data
    /\ guards' = r.guards
    /\ last' = [op |-> op, ty |-> T, arg |-> arg, err |-> r.err, ret |-> r.ret]
    /\ UNCHANGED disc

NoCall == [op |-> "new", ty |-> "usize", arg |-> <<>>, err |-> Ok, ret |-> <<>>]

InitWith(D) ==
    /\ disc \in D
    /\ data = BlackBox_new
    /\ guards = EmptyBag
    /\ last = NoCall

Init == InitWith(Disciplines)

\* allocate_for takes &mut self: no guard borrowed from the registry is alive
Allocate(T) ==
    /\ guards = EmptyBag
    /\ data' = allocate_for(T)
    /\ last' = [op |-> "allocate_for", ty |-> T, arg |-> <<>>, err |-> Ok, ret |-> <<>>]
    /\ UNCHANGED <<disc, guards>>

Insert(T, x) == Room(1) /\ Call("insert", T, <<x>>, BlackBox_insert(T, x))

InsertMany(T, xs) == Room(Len(xs)) /\ Call("insert_many", T, xs, BlackBox_insert_many(T, xs))

Get(T) == Call("get", T, <<>>, BlackBox_get(T))

GetMut(T) == Call("get_mut", T, <<>>, BlackBox_get_mut(T))

Ind(T, ind) == Call("ind", T, <<ind>>, BlackBox_ind(T, ind))

IndMut(T, ind) == Call("ind_mut", T, <<ind>>, BlackBox_ind_mut(T, ind))

Extract(T) == Call("extract", T, <<>>, BlackBox_extract(T))

ExtractMany(T) == Call("extract_many", T, <<>>, BlackBox_extract_many(T))

\* the element a guard refers to
\* a guard that always points at the first value of the unit
Target_as(g) == 1

Target(g) == g.ind + 1

\* a guard goes out of scope
Drop(g) ==
    /\ BagIn(g, guards)
    /\ guards' = guards (-) SetToBag({g})
    /\ data' = [data EXCEPT ![g.ty] = release(@, g.gt)]
    /\ UNCHANGED <<disc, last>>

\* *guard = x through a guard that implements DerefMut
Write(g, x) ==
    /\ BagIn(g, guards)
    /\ IsDerefMut(g.gt)
    /\ data' = [data EXCEPT ![g.ty].inner.vec[Target(g)] = x]
    /\ UNCHANGED <<disc, guards, last>>

Next ==
    \/ \E T \in Types : Allocate(T)
    \/ \E T \in Types, x \in Vals : Insert(T, x)
    \/ \E T \in Types, xs \in SeqsUpTo(Vals, MaxLen) : InsertMany(T, xs)
    \/ \E T \in Types : Get(T)
    \/ \E T \in Types : GetMut(T)
    \/ \E T \in Types, ind \in 0..MaxLen : Ind(T, ind)
    \/ \E T \in Types, ind \in 0..MaxLen : IndMut(T, ind)
    \/ \E T \in Types : Extract(T)
    \/ \E T \in Types : ExtractMany(T)
    \/ \E g \in BagToSet(guards) : Drop(g)
    \/ \E g \in BagToSet(guards), x \in Vals : Write(g, x)

Spec == Init /\ [][Next]_vars

SpecRefCell == InitWith({"RefCell"}) /\ [][Next]_vars

SpecMutex == InitWith({"Mutex"}) /\ [][Next]_vars

SpecRwLock == InitWith({"RwLock"}) /\ [][Next]_vars

TypeOK ==
    /\ disc \in Disciplines
    /\ DOMAIN data \subseteq Types
    /\ \A T \in DOMAIN data :
          /\ data[T].inner.tag \in {"Nope", "One", "Many"}
          /\ data[T].inner.vec \in SeqsUpTo(Vals, MaxLen)
          /\ data[T].lock \in -1..MaxGuards
    /\ BagCardinality(guards) <= MaxGuards

(***************************************************************************)
(* Properties.                                                             *)
(***************************************************************************)
Unallocated == Types \ DOMAIN data

Untouched(r) == r.data = data /\ r.guards = guards

\* the guards alive on the unit of T
GuardsOn(T) == {g \in BagToSet(guards) : g.ty = T}

IsMutGuard(g) == g.op \in {"get_mut", "ind_mut"}

\* how many guards returned by the calls in ops are alive on the unit of T
RECURSIVE CountIn(_)
CountIn(S) ==
    IF S = {} THEN 0
    ELSE LET g == CHOOSE x \in S : TRUE
         IN CopiesIn(g, guards) + CountIn(S \ {g})

NumGuards(T, ops) == CountIn({g \in GuardsOn(T) : g.op \in ops})

\* C1: on a type that was never allocated get, get_mut, ind, ind_mut, extract
\* and extract_many fail with NoAllocatedUnit, insert fails with
\* NoAllocatedUnit and hands back the value it was given, and none of these
\* calls changes the registry, a unit or the guards.
C1_NoAllocatedUnit ==
    \A T \in Unallocated :
        /\ \A r \in {BlackBox_get(T), BlackBox_get_mut(T), BlackBox_extract(T),
                     BlackBox_extract_many(T)} :
               r.err = NoAllocatedUnit /\ Untouched(r)
        /\ \A ind \in 0..MaxLen :
               \A r \in {BlackBox_ind(T, ind), BlackBox_ind_mut(T, ind)} :
                   r.err = NoAllocatedUnit /\ Untouched(r)
        /\ \A x \in Vals :
               LET r == BlackBox_insert(T, x)
               IN r.err = NoAllocatedUnit /\ r.ret = <<x>> /\ Untouched(r)

\* an insert on an unallocated type has been refused and its value handed
\* back, while another type holds values
C1_Witness ==
    /\ last.op = "insert" /\ last.ty \in Unallocated
    /\ last.err = NoAllocatedUnit /\ last.ret = last.arg /\ Len(last.arg) = 1
    /\ \E T \in DOMAIN data : data[T].inner.tag = "Many"

\* C2: insert_many has the contract of insert: on a type that was never
\* allocated the call fails with NoAllocatedUnit and returns the sequence it
\* was given, and it never reports success without storing the values.
C2_InsertManyContract ==
    (last.op = "insert_many" /\ last.ty \in Unallocated /\ last.arg # <<>>)
        => (last.err = NoAllocatedUnit /\ last.ret = last.arg)

\* C3: a successful insert of x turns Nope into One(x) and appends x behind
\* what the unit held otherwise, so n >= 2 successful inserts v1..vn into a
\* freshly allocated unit leave Many([v1, ..., vn]) and ind(k) reads v(k+1):
\* the value held as One becomes index 0.
C3_InsertKeepsOrder ==
    [][\A T \in DOMAIN data, x \in Vals :
          (Insert(T, x) /\ last'.err = Ok) =>
              LET old == data[T].inner
                  new == data'[T].inner
                  all == old.vec \o <<x>>
              IN /\ new.vec = all
                 /\ new.tag = IF old.tag = "Nope" THEN "One" ELSE "Many"
                 /\ old.tag = "One" => new = Many(<<old.vec[1], x>>)
                 /\ new.tag = "Many" =>
                        \A k \in 0..(Len(all) - 1) :
                            LET r == BlackBox_ind(T, k)'
                            IN r.err = Ok /\ r.ret = <<all[k + 1]>>]_vars

\* a second insert has just promoted One to Many, the two values in the
\* order of their insertion
C3_Witness ==
    /\ last.op = "insert" /\ last.err = Ok
    /\ data[last.ty].inner = Many(<<0, 1>>)
    /\ last.arg = <<1>>

\* the four borrow requests on T, with every index
BorrowRequests(T) ==
    {BlackBox_get(T), BlackBox_get_mut(T)}
        \cup {BlackBox_ind(T, ind) : ind \in 0..MaxLen}
        \cup {BlackBox_ind_mut(T, ind) : ind \in 0..MaxLen}

\* C4 as stated: under the reader/writer discipline, while ind_mut(i) is held
\* on a Many state a request ind_mut(j) for another index j in range succeeds.
C4_DisjointIndexMutSucceeds ==
    disc = "RwLock" =>
        \A g \in BagToSet(guards) :
            g.op = "ind_mut" =>
                \A j \in 0..(Len(data[g.ty].inner.vec) - 1) :
                    j # g.ind => BlackBox_ind_mut(g.ty, j).err = Ok

\* C4 as amended: under the reader/writer discipline, while a guard returned
\* by ind_mut is held, every further ind_mut on that unit fails with
\* BorrowedIncompatibly, on the same index and on any other index alike.
C4_IndMutConflicts ==
    disc = "RwLock" =>
        \A g \in BagToSet(guards) :
            g.op = "ind_mut" =>
                \A j \in 0..MaxLen :
                    LET r == BlackBox_ind_mut(g.ty, j)
                    IN r.err = BorrowedIncompatibly /\ Untouched(r)

\* ind_mut on the index of a held ind_mut guard has been refused
C4_Witness ==
    /\ disc = "RwLock"
    /\ last.op = "ind_mut" /\ last.err = BorrowedIncompatibly
    /\ \E g \in GuardsOn(last.ty) : g.op = "ind_mut" /\ <<g.ind>> = last.arg

\* C5: under the reader/writer discipline, while the guard of ind_mut(0) is
\* held, ind_mut(1) fails and its error is BorrowedIncompatibly; a unit never
\* has two guards of ind_mut alive, whatever their indices.
C5_IndMutExcludesIndMut ==
    disc = "RwLock" =>
        \A T \in DOMAIN data :
            /\ NumGuards(T, {"ind_mut"}) <= 1
            /\ (\E g \in GuardsOn(T) : g.op = "ind_mut" /\ g.ind = 0)
                   => BlackBox_ind_mut(T, 1).err = BorrowedIncompatibly

\* ind_mut(1) has been refused on Many of two values while ind_mut(0) is held
C5_Witness ==
    /\ disc = "RwLock"
    /\ last.op = "ind_mut" /\ last.arg = <<1>> /\ last.err = BorrowedIncompatibly
    /\ Len(data[last.ty].inner.vec) = 2
    /\ \E g \in GuardsOn(last.ty) : g.op = "ind_mut" /\ g.ind = 0

\* C6: under the reader/writer discipline, while every guard alive on a unit
\* comes from get or ind, a further get (state One) and a further ind(i)
\* (state Many, i in range, equal to a held index or not) succeed and read
\* the stored element; every guard alive refers to an element that exists.
C6_SharedBorrows ==
    disc = "RwLock" =>
        \A T \in DOMAIN data :
            LET s == data[T].inner
            IN (\A g \in GuardsOn(T) : ~IsMutGuard(g)) =>
                  /\ data[T].lock = NumGuards(T, {"get", "ind"})
                  /\ \A g \in GuardsOn(T) :
                         /\ g.op = "get" => s.tag = "One"
                         /\ g.op = "ind" => s.tag = "Many" /\ g.ind < Len(s.vec)
                  /\ s.tag = "One" =>
                         LET r == BlackBox_get(T)
                         IN r.err = Ok /\ r.ret = <<s.vec[1]>> /\ r.data[T].inner = s
                  /\ s.tag = "Many" =>
                         \A i \in 0..(Len(s.vec) - 1) :
                             LET r == BlackBox_ind(T, i)
                             IN r.err = Ok /\ r.ret = <<s.vec[i + 1]>>
                                /\ r.data[T].inner = s

\* two guards of ind are alive on one unit, on different indices, the second
\* just granted
C6_Witness ==
    /\ disc = "RwLock"
    /\ last.op = "ind" /\ last.err = Ok
    /\ \E g, h \in GuardsOn(last.ty) :
           /\ g.op = "ind" /\ h.op = "ind" /\ g.ind # h.ind
           /\ <<h.ind>> = last.arg
           /\ last.ret = <<data[last.ty].inner.vec[h.ind + 1]>>

\* C7: under every discipline, get_mut on a unit that has a guard alive (of
\* get, get_mut, ind or ind_mut) fails with BorrowedIncompatibly, also when
\* the state is Many, where a free unit would answer IsNotOne.
C7_GetMutConflicts ==
    \A T \in DOMAIN data :
        GuardsOn(T) # {} =>
            LET r == BlackBox_get_mut(T)
            IN r.err = BorrowedIncompatibly /\ Untouched(r)

\* get_mut has been refused on a Many unit that has a guard of ind alive
C7_Witness ==
    /\ last.op = "get_mut" /\ last.err = BorrowedIncompatibly
    /\ data[last.ty].inner.tag = "Many"
    /\ \E g \in GuardsOn(last.ty) : g.op = "ind"

\* the borrow requests on T that fit its state: get and get_mut on One, ind
\* and ind_mut within range on Many
MatchingRequests(T) ==
    LET s == data[T].inner
    IN CASE s.tag = "One"  -> {BlackBox_get(T), BlackBox_get_mut(T)}
         [] s.tag = "Many" ->
                {BlackBox_ind(T, i) : i \in 0..(Len(s.vec) - 1)}
                    \cup {BlackBox_ind_mut(T, i) : i \in 0..(Len(s.vec) - 1)}
         [] OTHER -> {}

HoldsMut(T) == \E g \in GuardsOn(T) : IsMutGuard(g)

\* C8: under the exclusive-owner discipline, while a guard of get_mut or
\* ind_mut is held every borrow request on its unit fails with
\* BorrowedIncompatibly, and the step that drops that guard leads to a state
\* where every request that fits the state of the unit succeeds.
C8_RefCellMutBorrow ==
    /\ [](disc = "RefCell" =>
            \A T \in DOMAIN data :
                HoldsMut(T) =>
                    \A r \in BorrowRequests(T) :
                        r.err = BorrowedIncompatibly /\ Untouched(r))
    /\ [][disc = "RefCell" =>
            \A g \in BagToSet(guards) :
                (IsMutGuard(g) /\ Drop(g)) =>
                    /\ MatchingRequests(g.ty)' # {}
                    /\ \A r \in MatchingRequests(g.ty)' : r.err = Ok]_vars

\* a get has been refused while the guard of get_mut is held
C8_Witness ==
    /\ disc = "RefCell"
    /\ last.op = "get" /\ last.err = BorrowedIncompatibly
    /\ \E g \in GuardsOn(last.ty) : g.op = "get_mut"

\* C9: under the mutual-exclusion discipline a unit has at most one guard
\* alive, and while it has one every borrow request on it, get included,
\* fails with BorrowedIncompatibly.
C9_MutexOneGuard ==
    disc = "Mutex" =>
        \A T \in DOMAIN data :
            /\ NumGuards(T, {"get", "get_mut", "ind", "ind_mut"}) <= 1
            /\ GuardsOn(T) # {} =>
                   \A r \in BorrowRequests(T) :
                       r.err = BorrowedIncompatibly /\ Untouched(r)

\* a get has been refused while the guard of an earlier get is held
C9_Witness ==
    /\ disc = "Mutex"
    /\ last.op = "get" /\ last.err = BorrowedIncompatibly
    /\ \E g \in GuardsOn(last.ty) : g.op = "get"

\* C10: extract_one fails with IsNotOne on Nope and Many, extract_many (and
\* extract_many_boxed) fail with IsNotMany on Nope and One, and a successful
\* extraction, through the unit's own operation or through the registry,
\* leaves Nope and returns what was stored.
C10_Extract ==
    \A T \in DOMAIN data :
        LET s == data[T].inner
            one == StorageUnit_extract_one(s)
            many == StorageUnit_extract_many(s)
            boxed == StorageUnit_extract_many_boxed(s)
            x == BlackBox_extract(T)
            xm == BlackBox_extract_many(T)
        IN /\ s.tag \in {"Nope", "Many"} => one.err = IsNotOne /\ one.self = s
           /\ s.tag \in {"Nope", "One"} =>
                  /\ many.err = IsNotMany /\ many.self = s
                  /\ boxed.err = IsNotMany /\ boxed.self = s
           /\ s.tag = "One" => one.err = Ok /\ one.self = Nope /\ one.val = s.vec
           /\ s.tag = "Many" =>
                  /\ many.err = Ok /\ many.self = Nope /\ many.val = s.vec
                  /\ boxed.err = Ok /\ boxed.self = Nope /\ boxed.val = s.vec
           /\ data[T].lock = 0 =>
                  /\ x.err = one.err /\ x.data[T].inner = one.self
                  /\ xm.err = boxed.err /\ xm.data[T].inner = boxed.self
                  /\ x.err = Ok => x.ret = s.vec
                  /\ xm.err = Ok => xm.ret = s.vec

\* an extract has just succeeded and left its unit in the state Nope
C10_Witness ==
    /\ last.op = "extract" /\ last.err = Ok /\ Len(last.ret) = 1
    /\ data[last.ty].inner = Nope

\* C11: on a unit in the state Nope, insert(v) followed by extract returns v
\* and leaves the unit in the state Nope it started from; on any free unit
\* that holds One(v), extract returns v and leaves Nope.
C11_InsertExtractRoundTrip ==
    \A T \in DOMAIN data :
        LET u == data[T]
        IN /\ u.inner = Nope =>
                  \A v \in Vals :
                      LET ins == BlackBox_insert(T, v)
                          ext == Unit_extract(ins.data[T])
                          one == StorageUnit_extract_one(StorageUnit_insert(u.inner, v))
                      IN /\ ins.err = Ok /\ ins.data[T].inner = One(v)
                         /\ ext.err = Ok /\ ext.val = <<v>> /\ ext.unit = u
                         /\ one.err = Ok /\ one.val = <<v>> /\ one.self = u.inner
           /\ (u.inner.tag = "One" /\ u.lock = 0) =>
                  LET r == BlackBox_extract(T)
                  IN r.err = Ok /\ r.ret = u.inner.vec /\ r.data[T] = NewUnit

\* an extract has returned the value 1 and left the unit as allocate_for
\* made it
C11_Witness ==
    /\ last.op = "extract" /\ last.err = Ok /\ last.ret = <<1>>
    /\ data[last.ty] = NewUnit

\* C12: an insert on an allocated type that is denied access returns the
\* value it was given with BorrowedIncompatibly and changes nothing; an
\* insert that returns success has stored the value, and one that returns an
\* error hands the value back and leaves the unit as it was.
C12_InsertNonDestructive ==
    \A T \in DOMAIN data : \A x \in Vals :
        LET r == BlackBox_insert(T, x)
            old == data[T].inner
        IN /\ GuardsOn(T) # {} => r.err = BorrowedIncompatibly
           /\ r.err # Ok => r.ret = <<x>> /\ Untouched(r)
           /\ r.err = Ok =>
                  /\ r.ret = <<>>
                  /\ r.data[T].inner.vec = old.vec \o <<x>>
                  /\ \A T2 \in DOMAIN data \ {T} : r.data[T2] = data[T2]

\* an insert has been refused on a unit with a guard alive and its value
\* handed back
C12_Witness ==
    /\ last.op = "insert" /\ last.err = BorrowedIncompatibly
    /\ Len(last.arg) = 1 /\ last.ret = last.arg
    /\ GuardsOn(last.ty) # {}

\* C13: allocate_for creates a unit in the state Nope for a type that has
\* none and changes nothing for a type that has one, whatever that unit
\* holds; the units of the other types are never touched.
C13_AllocateIdempotent ==
    \A T \in Types :
        LET d == allocate_for(T)
        IN /\ DOMAIN d = DOMAIN data \cup {T}
           /\ T \in DOMAIN data => d = data
           /\ T \notin DOMAIN data => d[T].inner = Nope /\ d[T].lock = 0
           /\ \A T2 \in DOMAIN data : d[T2] = data[T2]

\* allocate_for has been called for a type whose unit holds two values, and
\* they are still there
C13_Witness ==
    /\ last.op = "allocate_for"
    /\ last.ty \in DOMAIN data
    /\ data[last.ty].inner = Many(<<0, 1>>)

\* a guard alive on the unit of T that is the only guard of its primitive
HoldsExclusive(T) == \E g \in GuardsOn(T) : IsExclusive(g.gt)

\* C14: no call waits for a guard.  A get_mut, ind_mut, insert, insert_many,
\* extract or extract_many on a unit with a guard alive, and a get or ind on
\* a unit with an exclusive guard alive, returns BorrowedIncompatibly at once
\* and changes nothing; these calls and the drop of every guard alive are
\* steps that can be taken in the state as it is, so no state is stuck.
C14_NeverWaits ==
    /\ \A T \in DOMAIN data :
          /\ GuardsOn(T) # {} =>
                /\ \A r \in {BlackBox_get_mut(T), BlackBox_extract(T),
                             BlackBox_extract_many(T)}
                            \cup {BlackBox_ind_mut(T, i) : i \in 0..MaxLen}
                            \cup {BlackBox_insert(T, x) : x \in Vals}
                            \cup {BlackBox_insert_many(T, xs) : xs \in SeqsUpTo(Vals, MaxLen)} :
                       r.err = BorrowedIncompatibly /\ Untouched(r)
                /\ ENABLED GetMut(T) /\ ENABLED Extract(T) /\ ENABLED ExtractMany(T)
                /\ \A i \in 0..MaxLen : ENABLED IndMut(T, i)
                /\ Room(1) => \A x \in Vals : ENABLED Insert(T, x)
                /\ ENABLED InsertMany(T, <<>>)
          /\ HoldsExclusive(T) =>
                /\ \A r \in {BlackBox_get(T)} \cup {BlackBox_ind(T, i) : i \in 0..MaxLen} :
                       r.err = BorrowedIncompatibly /\ Untouched(r)
                /\ ENABLED Get(T)
                /\ \A i \in 0..MaxLen : ENABLED Ind(T, i)
    /\ \A g \in BagToSet(guards) : ENABLED Drop(g)
    /\ ENABLED Next

\* an extract has been refused at once on a unit with a guard alive
C14_Witness ==
    /\ last.op = "extract" /\ last.err = BorrowedIncompatibly
    /\ GuardsOn(last.ty) # {}

\* what a call on a free unit in the state s has to return and leave behind,
\* written without any reference to the discipline
ExpectOne(s) == IF s.tag = "One" THEN [err |-> Ok, ret |-> s.vec]
                ELSE [err |-> IsNotOne, ret |-> <<>>]

ExpectInd(s, i) ==
    IF s.tag # "Many" THEN [err |-> IsNotMany, ret |-> <<>>]
    ELSE IF i >= Len(s.vec) THEN [err |-> OutOfBounds, ret |-> <<>>]
    ELSE [err |-> Ok, ret |-> <<s.vec[i + 1]>>]

ExpectInsert(s, x) ==
    CASE s.tag = "Nope" -> [tag |-> "One", vec |-> <<x>>]
      [] s.tag = "One"  -> [tag |-> "Many", vec |-> <<s.vec[1], x>>]
      [] s.tag = "Many" -> [tag |-> "Many", vec |-> s.vec \o <<x>>]

ExpectInsertMany(s, xs) ==
    CASE s.tag = "Nope" -> [tag |-> "Many", vec |-> xs]
      [] s.tag = "One"  -> [tag |-> "Many", vec |-> <<s.vec[1]>> \o xs]
      [] s.tag = "Many" -> [tag |-> "Many", vec |-> s.vec \o xs]

SameAs(r, e, T, s) == r.err = e.err /\ r.ret = e.ret /\ r.data[T].inner = s

\* C15: when no guard is alive (every guard was dropped before the next
\* call), every unit is free and every call returns the result and leaves
\* the state that the StorageUnit table gives for the state of the unit,
\* whichever of the three disciplines the registry was built with.
C15_SameLogicInEveryDiscipline ==
    guards = EmptyBag =>
        \A T \in DOMAIN data :
            LET s == data[T].inner
                x1 == BlackBox_extract(T)
                xm == BlackBox_extract_many(T)
            IN /\ data[T].lock = 0
               /\ SameAs(BlackBox_get(T), ExpectOne(s), T, s)
               /\ SameAs(BlackBox_get_mut(T), ExpectOne(s), T, s)
               /\ \A i \in 0..MaxLen :
                      /\ SameAs(BlackBox_ind(T, i), ExpectInd(s, i), T, s)
                      /\ SameAs(BlackBox_ind_mut(T, i), ExpectInd(s, i), T, s)
               /\ \A x \in Vals :
                      LET r == BlackBox_insert(T, x)
                      IN r.err = Ok /\ r.data[T] = [inner |-> ExpectInsert(s, x), lock |-> 0]
               /\ \A xs \in SeqsUpTo(Vals, MaxLen) :
                      LET r == BlackBox_insert_many(T, xs)
                      IN r.err = Ok
                         /\ r.data[T] = [inner |-> ExpectInsertMany(s, xs), lock |-> 0]
               /\ IF s.tag = "One"
                  THEN x1.err = Ok /\ x1.ret = s.vec /\ x1.data[T] = NewUnit
                  ELSE x1.err = IsNotOne /\ Untouched(x1)
               /\ IF s.tag = "Many"
                  THEN xm.err = Ok /\ xm.ret = s.vec /\ xm.data[T] = NewUnit
                  ELSE xm.err = IsNotMany /\ Untouched(xm)

\* the same call sequence has been run under the mutual-exclusion
\* discipline: a guard of get was taken and dropped, the unit is free again
C15_Witness ==
    /\ disc = "Mutex" /\ guards = EmptyBag
    /\ last.op = "get" /\ last.err = Ok
    /\ data[last.ty].inner.tag = "One"

\* no guard alive on the unit of T stands against a guard of type gt
NoConflict(T, gt) ==
    IF IsExclusive(gt) THEN GuardsOn(T) = {} ELSE ~HoldsExclusive(T)

\* C16: with no conflicting guard alive, get and get_mut succeed exactly in
\* the state One, returning its value, and fail with IsNotOne in the states
\* Many and Nope; an allocated unit that never received a value answers
\* IsNotOne, not NoAllocatedUnit.
C16_GetNeedsOne ==
    \A T \in DOMAIN data :
        LET s == data[T].inner
            g == BlackBox_get(T)
            gm == BlackBox_get_mut(T)
        IN /\ NoConflict(T, U.Borrowed) =>
                 /\ (g.err = Ok) <=> (s.tag = "One")
                 /\ g.err = Ok => g.ret = <<s.vec[1]>>
                 /\ s.tag \in {"Many", "Nope"} => g.err = IsNotOne /\ Untouched(g)
           /\ NoConflict(T, U.MutBorrowed) =>
                 /\ (gm.err = Ok) <=> (s.tag = "One")
                 /\ gm.err = Ok => gm.ret = <<s.vec[1]>>
                 /\ s.tag \in {"Many", "Nope"} => gm.err = IsNotOne /\ Untouched(gm)

\* after two inserts get has answered IsNotOne on the free unit
C16_Witness ==
    /\ last.op = "get" /\ last.err = IsNotOne
    /\ data[last.ty].inner.tag = "Many" /\ Len(data[last.ty].inner.vec) = 2
    /\ GuardsOn(last.ty) = {}

\* C17: with no conflicting guard alive, ind(i) and ind_mut(i) return
\* element i in the state Many when i is below the length, fail with
\* OutOfBounds in the state Many otherwise, and fail with IsNotMany in the
\* states Nope and One, index 0 of One included.
C17_IndNeedsMany ==
    \A T \in DOMAIN data : \A i \in 0..MaxLen :
        LET s == data[T].inner
            CheckInd(r) ==
                /\ (s.tag = "Many" /\ i < Len(s.vec)) =>
                       r.err = Ok /\ r.ret = <<s.vec[i + 1]>>
                /\ (s.tag = "Many" /\ i >= Len(s.vec)) =>
                       r.err = OutOfBounds /\ Untouched(r)
                /\ s.tag \in {"Nope", "One"} => r.err = IsNotMany /\ Untouched(r)
        IN /\ NoConflict(T, U.Borrowed) => CheckInd(BlackBox_ind(T, i))
           /\ NoConflict(T, U.MutBorrowed) => CheckInd(BlackBox_ind_mut(T, i))

\* ind has answered OutOfBounds for the index just past the end of Many
C17_Witness ==
    /\ last.op = "ind" /\ last.err = OutOfBounds
    /\ data[last.ty].inner.tag = "Many"
    /\ last.arg = <<Len(data[last.ty].inner.vec)>>
    /\ Len(data[last.ty].inner.vec) > 0

\* C18: a successful insert_many(xs) always ends in Many with the order kept:
\* Nope becomes Many(xs), One(v) becomes Many(<<v>> \o xs), Many(seq) becomes
\* Many(seq \o xs), the empty xs included; afterwards get fails with IsNotOne
\* and extract_many succeeds, returning the whole vector.
C18_InsertManyEndsInMany ==
    [][\A T \in DOMAIN data : \A xs \in SeqsUpTo(Vals, MaxLen) :
          (/\ last' = [op |-> "insert_many", ty |-> T, arg |-> xs, err |-> Ok, ret |-> <<>>]
           /\ InsertMany(T, xs)) =>
              LET s == data[T].inner
                  t == data'[T].inner
              IN /\ s.tag = "Nope" => t = Many(xs)
                 /\ s.tag = "One" => t = Many(<<s.vec[1]>> \o xs)
                 /\ s.tag = "Many" => t = Many(s.vec \o xs)
                 /\ t.tag = "Many"
                 /\ BlackBox_get(T)'.err = IsNotOne
                 /\ BlackBox_extract_many(T)'.err = Ok
                 /\ BlackBox_extract_many(T)'.ret = t.vec
                 /\ BlackBox_extract_many(T)'.data[T].inner = Nope]_vars

\* insert_many of a value has promoted One, keeping its value in front
C18_Witness ==
    /\ last.op = "insert_many" /\ last.err = Ok /\ Len(last.arg) = 1
    /\ last.ty \in DOMAIN data
    /\ data[last.ty].inner.tag = "Many" /\ Len(data[last.ty].inner.vec) = 2
    /\ data[last.ty].inner.vec[1] # data[last.ty].inner.vec[2]
    /\ data[last.ty].inner.vec[2] = last.arg[1]

\* C19: a write through the guard of ind_mut(i) changes only element i: once
\* the guard is released ind(i) returns the written value, ind(j) returns
\* its previous value for every other j, and the unit is still Many with the
\* same length; releasing the guard changes no stored value.
C19_WriteOnlyBorrowedElement ==
    [][\A g \in BagToSet(guards) :
          g.op = "ind_mut" =>
              LET T == g.ty
                  s == data[T].inner
              IN /\ \A x \in Vals :
                        Write(g, x) =>
                            LET u == release(data'[T], g.gt)
                            IN /\ u.inner.tag = "Many" /\ s.tag = "Many"
                               /\ Len(u.inner.vec) = Len(s.vec)
                               /\ g.ind < Len(s.vec)
                               /\ \A j \in 0..(Len(s.vec) - 1) :
                                     /\ Unit_ind(u, j).err = Ok
                                     /\ Unit_ind(u, j).val =
                                            <<IF j = g.ind THEN x ELSE s.vec[j + 1]>>
                               /\ \A T2 \in DOMAIN data \ {T} : data'[T2] = data[T2]
                 /\ Drop(g) =>
                        /\ data'[T].inner = s
                        /\ \A j \in 0..(Len(s.vec) - 1) :
                              /\ BlackBox_ind(T, j)'.err = Ok
                              /\ BlackBox_ind(T, j)'.ret = <<s.vec[j + 1]>>]_vars

\* ind_mut(0) on Many of two values returned a guard, the value was
\* overwritten through it, and the guard has been released
C19_Witness ==
    /\ last.op = "ind_mut" /\ last.err = Ok /\ last.arg = <<0>>
    /\ GuardsOn(last.ty) = {}
    /\ data[last.ty].inner.tag = "Many" /\ Len(data[last.ty].inner.vec) = 2
    /\ data[last.ty].inner.vec[1] # last.ret[1]
    /\ BlackBox_ind(last.ty, 0).ret = <<data[last.ty].inner.vec[1]>>
    /\ BlackBox_ind(last.ty, 1).err = Ok

\* the value a guard points at is still in the unit
RefersToValue(g) ==
    /\ g.ty \in DOMAIN data
    /\ LET s == data[g.ty].inner
       IN IF g.op \in {"get", "get_mut"} THEN s.tag = "One"
          ELSE s.tag = "Many" /\ g.ind < Len(s.vec)

\* C20: while a guard on a unit is alive, insert, insert_many, extract and
\* extract_many on that unit fail with BorrowedIncompatibly, no step changes
\* the unit's state tag or the length of its vector, and every live guard
\* refers to a value that is still stored where it was borrowed.
C20_GuardsFreezeMultiplicity ==
    /\ [](\A T \in DOMAIN data :
             GuardsOn(T) # {} =>
                 /\ \A x \in Vals : BlackBox_insert(T, x).err = BorrowedIncompatibly
                                    /\ BlackBox_insert(T, x).data = data
                 /\ \A xs \in SeqsUpTo(Vals, MaxLen) :
                        /\ BlackBox_insert_many(T, xs).err = BorrowedIncompatibly
                        /\ BlackBox_insert_many(T, xs).data = data
                 /\ BlackBox_extract(T).err = BorrowedIncompatibly
                 /\ BlackBox_extract(T).data = data
                 /\ BlackBox_extract_many(T).err = BorrowedIncompatibly
                 /\ BlackBox_extract_many(T).data = data)
    /\ [](\A g \in BagToSet(guards) : RefersToValue(g))
    /\ [][\A T \in DOMAIN data :
             GuardsOn(T) # {} =>
                 /\ data'[T].inner.tag = data[T].inner.tag
                 /\ Len(data'[T].inner.vec) = Len(data[T].inner.vec)]_vars

\* insert_many was refused on a unit whose single value is borrowed
C20_Witness ==
    /\ last.op = "insert_many" /\ last.err = BorrowedIncompatibly
    /\ \E g \in GuardsOn(last.ty) : g.op = "get"
    /\ data[last.ty].inner.tag = "One"

\* the errors a borrow or an extraction on an allocated unit can return
CallErrors == {IsNotOne, IsNotMany, OutOfBounds, BorrowedIncompatibly}

\* a step that is a get, get_mut, ind, ind_mut, extract or extract_many
\* returning one of CallErrors
FailedCall ==
    /\ last'.err \in CallErrors
    /\ \E T \in Types :
          /\ last'.ty = T
          /\ \/ last'.op = "get" /\ Get(T)
             \/ last'.op = "get_mut" /\ GetMut(T)
             \/ last'.op = "extract" /\ Extract(T)
             \/ last'.op = "extract_many" /\ ExtractMany(T)
             \/ \E i \in 0..MaxLen :
                   /\ last'.arg = <<i>>
                   /\ \/ last'.op = "ind" /\ Ind(T, i)
                      \/ last'.op = "ind_mut" /\ IndMut(T, i)

\* C21: a get, get_mut, ind, ind_mut, extract or extract_many that returns
\* IsNotOne, IsNotMany, OutOfBounds or BorrowedIncompatibly changes neither
\* the state tag nor the stored values of any unit and leaves no guard and
\* no lock behind.  The answer to every request is a function of disc, data
\* and guards alone, so every later request is answered as it would have
\* been without the failed call.
C21_FailedCallIsNoOp ==
    /\ [](\A T \in DOMAIN data :
             \A r \in {BlackBox_get(T), BlackBox_get_mut(T),
                       BlackBox_extract(T), BlackBox_extract_many(T)}
                      \cup {BlackBox_ind(T, i) : i \in 0..MaxLen}
                      \cup {BlackBox_ind_mut(T, i) : i \in 0..MaxLen} :
                 r.err \in CallErrors => Untouched(r))
    /\ [][FailedCall => UNCHANGED <<disc, data, guards>>]_vars

\* extract was refused with IsNotOne on a free unit holding two values
C21_Witness ==
    /\ last.op = "extract" /\ last.err = IsNotOne
    /\ GuardsOn(last.ty) = {}
    /\ data[last.ty].inner.tag = "Many" /\ Len(data[last.ty].inner.vec) = 2

====
